---- MODULE Spec2Model ----
(***************************************************************************)
(* Model of the two stateful workflows of workshops/views.py:              *)
(*   - the duplicate-person workflow  (person_find_duplicates)             *)
(*   - the bulk-upload workflow       (person_bulk_add,                    *)
(*                                     person_bulk_add_confirmation)       *)
(* The Data Store is the pair (persons, refs); the session staging area is *)
(* the variable session.  The functions of workshops/util.py and          *)
(* workshops/models.py that the views call (verify_upload_person_task,    *)
(* create_uploaded_persons_tasks, merge_model_objects, upload_person_task_ *)
(* csv, Person.get_first_last) are modelled from the specification.       *)
(***************************************************************************)
EXTENDS Integers, Sequences, FiniteSets, TLC

VARIABLES persons,   \* Data Store: person id -> [personal, family, email]
          refs,      \* Data Store: rows holding a foreign key to a Person
          session,   \* request.session['bulk-add-people']
          txn,       \* the commit transaction of a confirm request in flight
          resp,      \* what the last finished request answered
          forms      \* browser tab -> rows of the confirmation form it shows

vars == <<persons, refs, session, txn, resp, forms>>

----------------------------------------------------------------------------
(* Bounds and value universes *)

MaxPersons == 4

None == "<None>"
Absent == "<absent>"

Personals == {"Harry", "Ron"}
Families == {"Potter", "Weasley"}

PersonIds == 1..MaxPersons

NoPerson == 0

\* rows of the duplicate workflow's initial Data Store
InitRefRows ==
    {[kind |-> "Qualification", person |-> p, item |-> "Git", role |-> ""] : p \in PersonIds}

Store == [persons |-> persons, refs |-> refs]

\* request.session['bulk-add-people']: None, or the list of staged records
NoSession == [none |-> TRUE, rows |-> <<>>]
Staged(rows) == [none |-> FALSE, rows |-> rows]

\* no confirm request is committing
NoTxn == [active |-> FALSE]

\* the browser tabs of the one session, and a client that is none of them
Tabs == {"A", "B"}
NoTab == "-"

\* no tab shows the confirmation form
NoForms == [t \in Tabs |-> 0]

\* the tab's form after a response that rendered n rows (none: 0)
FormsAfter(cur, tab, n) == IF tab \in Tabs THEN [cur EXCEPT ![tab] = n] ELSE cur

----------------------------------------------------------------------------
(* Helpers on sequences and sets *)

RECURSIVE SortedIds(_)
SortedIds(S) ==
    IF S = {} THEN <<>>
    ELSE LET m == CHOOSE x \in S : \A y \in S : x <= y
         IN <<m>> \o SortedIds(S \ {m})

Range(s) == {s[i] : i \in 1..Len(s)}

RemoveAt(s, i) == SubSeq(s, 1, i - 1) \o SubSeq(s, i + 1, Len(s))

\* int(text) of a posted value: IsInt tells whether int() returns, ParseInt what
DigitStr == [i \in 1..9 |-> CASE i = 1 -> "1" [] i = 2 -> "2" [] i = 3 -> "3"
                              [] i = 4 -> "4" [] i = 5 -> "5" [] i = 6 -> "6"
                              [] i = 7 -> "7" [] i = 8 -> "8" [] i = 9 -> "9"]

IsInt(text) == \E i \in DOMAIN DigitStr : DigitStr[i] = text

ParseInt(text) == CHOOSE i \in DOMAIN DigitStr : DigitStr[i] = text

----------------------------------------------------------------------------
(* Duplicate Finder *)

\* Person.get_first_last: the group key, the exact (personal, family) pair
get_first_last(ps, p) == <<ps[p].personal, ps[p].family>>

\* values('personal').annotate(Count('personal')).filter(personal__count__gt=1)
dupes_personal(ps) ==
    {n \in {ps[p].personal : p \in DOMAIN ps} :
        Cardinality({p \in DOMAIN ps : ps[p].personal = n}) > 1}

dupes_family(ps) ==
    {n \in {ps[p].family : p \in DOMAIN ps} :
        Cardinality({p \in DOMAIN ps : ps[p].family = n}) > 1}

\* variant for mutation: the family filter left out
DupesMutNoFamily(ps) ==
    {p \in DOMAIN ps : ps[p].personal \in dupes_personal(ps)}

\* Person.objects.filter(personal__in=...).filter(family__in=...)
dupes(ps) ==
    {p \in DOMAIN ps : /\ ps[p].personal \in dupes_personal(ps)
                       /\ ps[p].family \in dupes_family(ps)}

\* variant for mutation: grouped by the personal name alone
GroupByMutPersonal(ps, members) ==
    LET keys == {<<ps[p].personal, "">> : p \in members}
    IN [k \in keys |-> SortedIds({p \in members : ps[p].personal = k[1]})]

\* the grouping loop: key -> members, in query order
GroupBy(ps, members) ==
    LET keys == {get_first_last(ps, p) : p \in members}
    IN [k \in keys |-> SortedIds({p \in members : get_first_last(ps, p) = k})]

\* variant for mutation: the posted ids are not looked at
SelectedDupesMutAll(ps, post_array) == DOMAIN ps

\* Person.objects.filter(id__in=post_array)
selected_dupes(ps, post_array) == {p \in DOMAIN ps : p \in post_array}

\* variant for mutation: no group dropped
KeepAllGroups(groups) == groups

\* groups = {k: v for (k, v) in groups.items() if len(v) > 1}
KeepLargeGroups(groups) ==
    [k \in {k \in DOMAIN groups : Len(groups[k]) > 1} |-> groups[k]]

EmptyGroups == [k \in {} |-> <<>>]

----------------------------------------------------------------------------
(* Record Merger *)

\* merge_model_objects(primary, group): every row of a duplicate is repointed
\* to the primary (conflicting rows are kept once), then the duplicates are
\* deleted; one transaction
merge_model_objects(store, primary, dups) ==
    [persons |-> [p \in DOMAIN store.persons \ dups |-> store.persons[p]],
     refs    |-> {IF r.person \in dups THEN [r EXCEPT !.person = primary] ELSE r
                    : r \in store.refs}]

\* what a call of merge_model_objects can end with: done, the TypeError the
\* view handles, or another error (MergeError, a constraint violation)
MergeOutcomes == {"ok", "TypeError", "MergeError"}

----------------------------------------------------------------------------
(* person_find_duplicates *)

\* for person in group: if person.id == primary_id: primary = person;
\* group.remove(primary)   -- the list is edited while it is iterated
RECURSIVE FindPrimary(_, _, _, _)
\* variant for mutation: only the first other member is passed on
FindPrimaryMutFirstOnly(group, i, primary_id, primary) ==
    IF primary_id \in Range(group)
    THEN [primary |-> primary_id,
          group |-> SubSeq(SortedIds(Range(group) \ {primary_id}), 1, 1)]
    ELSE [primary |-> NoPerson, group |-> group]

\* variant for mutation: the primary stays in the group
FindPrimaryMutNoRemove(group, i, primary_id, primary) ==
    IF primary_id \in Range(group)
    THEN [primary |-> primary_id, group |-> group]
    ELSE [primary |-> NoPerson, group |-> group]

FindPrimary(group, i, primary_id, primary) ==
    IF i > Len(group) THEN [primary |-> primary, group |-> group]
    ELSE IF group[i] = primary_id
         THEN FindPrimary(RemoveAt(group, i), i + 1, primary_id, group[i])
         ELSE FindPrimary(group, i + 1, primary_id, primary)

\* if not primary: ... return redirect
PrimaryRejected(found) == found.primary = NoPerson

\* what a request that did not reach the Upload Committer reports of it
NoCommit == [invoked |-> FALSE, failedAt |-> 0, error |-> "", written |-> 0,
             persons_created |-> 0, tasks_created |-> 0]

\* request.POST.get('verify'), .get('confirm'), .get('cancel') of a POST of the
\* confirmation form
Flags(verify, confirm, cancel) ==
    [post |-> TRUE, verify |-> verify, confirm |-> confirm, cancel |-> cancel]

\* a request that is no POST of the confirmation form
NoFlags == [post |-> FALSE, verify |-> FALSE, confirm |-> FALSE, cancel |-> FALSE]

\* a response: the view, the status, the message added, and what was rendered
\* or called on the way (groups and calls of the duplicate workflow, the
\* staged rows shown, the parser's outcome and the commit of the upload
\* workflow), the flags the request was posted with, and the members of a
\* confirmed merge's groups whose ids were not posted
Response(view, status, msg, groups, calls, shown, note, commit) ==
    [view |-> view, status |-> status, msg |-> msg, groups |-> groups,
     calls |-> calls, shown |-> shown, note |-> note, commit |-> commit,
     flags |-> NoFlags, edited |-> 0, unposted |-> {}]

\* the response to a POST of the confirmation form
Posted(flags, r) == [r EXCEPT !.flags = flags]

\* a page rendered after the edit step gave n rows the values of the request
Edited(n, r) == [r EXCEPT !.edited = n]

Answer(view, status, msg, groups, calls) ==
    Response(view, status, msg, groups, calls, <<>>, "", NoCommit)

MsgNone == ""
MsgSelectTwo == "You must select at least two duplicate entries"
MsgPrimaryInvalid == "Primary not valid: not in group"
MsgMergeFailed == "Merge failed, nothing was changed"
MsgMergeSuccess == "Merge success"

\* the loop "for key, group in groups.items()" of the Confirm branch: every
\* way the request can end when the keys in todo are still to be visited.
\* The dictionary's iteration order is not fixed: any remaining key is next.
\* texts are the values a "<key>_primary" field can be posted with, read when
\* the loop reaches the key.
RECURSIVE MergeLoop(_, _, _, _, _)
MergeLoop(groups, todo, texts, store, calls) ==
    IF todo = {}
    THEN {[store |-> store,
           resp  |-> Answer("dupes_confirm", 302, MsgMergeSuccess, EmptyGroups, calls)]}
    ELSE UNION {UNION {
      IF ~IsInt(text)
      \* request.POST[...] raises KeyError (int() a ValueError): not handled
      THEN {[store |-> store,
             resp  |-> Answer("dupes_confirm", 500, MsgNone, EmptyGroups, calls)]}
      ELSE
        LET found == FindPrimary(groups[key], 1, ParseInt(text), NoPerson)
            \* the call merge_model_objects(primary, group); selected is the
            \* group as posted, rows the rows that reference a duplicate
            call == [primary |-> found.primary, dups |-> found.group,
                     selected |-> groups[key],
                     rows |-> {r \in store.refs : r.person \in Range(found.group)}]
        IN IF PrimaryRejected(found)
           THEN {[store |-> store,
                  resp  |-> Answer("dupes_confirm", 302, MsgPrimaryInvalid,
                                   EmptyGroups, calls)]}
           ELSE UNION {
             CASE outcome = "ok" ->
                    MergeLoop(groups, todo \ {key}, texts,
                              merge_model_objects(store, found.primary,
                                                  Range(found.group)),
                              Append(calls, call))
               [] outcome = "TypeError" ->
                    {[store |-> store,
                      resp  |-> Answer("dupes_confirm", 302, MsgMergeFailed,
                                       EmptyGroups, Append(calls, call))]}
               [] OTHER ->
                    {[store |-> store,
                      resp  |-> Answer("dupes_confirm", 500, MsgNone,
                                       EmptyGroups, Append(calls, call))]}
             : outcome \in MergeOutcomes}
      : text \in texts} : key \in todo}

UploadIdle == UNCHANGED <<session, txn, forms>>

\* GET: the full scan
FindDuplicatesGet ==
    /\ resp' = Answer("dupes_scan", 200, MsgNone, GroupBy(persons, dupes(persons)), <<>>)
    /\ UNCHANGED <<persons, refs>>
    /\ UploadIdle

Members(groups) == UNION {Range(groups[k]) : k \in DOMAIN groups}

PostedGroups(post_array) ==
    KeepLargeGroups(GroupBy(persons, selected_dupes(persons, post_array)))

\* what the view makes of the posted ids, for every set of ids that can be
\* posted: the groups, and the members of the groups that were not posted
Posts ==
    {[groups |-> PostedGroups(post_array),
      unposted |-> Members(PostedGroups(post_array)) \ post_array]
       : post_array \in SUBSET PersonIds}

\* variant for mutation: the selection step merges a group it shows
SelectStoreMutMerges(store, groups) ==
    IF DOMAIN groups = {} THEN store
    ELSE LET group == groups[CHOOSE k \in DOMAIN groups : TRUE]
         IN merge_model_objects(store, Head(group), Range(Tail(group)))

\* the Data Store after the selection step: the groups are rendered, nothing
\* is written
SelectStore(store, groups) == store

\* POST without 'Confirm': the selection step
FindDuplicatesSelect ==
    \E post \in Posts :
      /\ resp' = IF DOMAIN post.groups = {}
                 THEN Answer("dupes_select", 302, MsgSelectTwo, EmptyGroups, <<>>)
                 ELSE Answer("dupes_select", 200, MsgNone, post.groups, <<>>)
      /\ persons' = SelectStore(Store, post.groups).persons
      /\ refs' = SelectStore(Store, post.groups).refs
      /\ UploadIdle

\* a posted "<key>_primary": an id in decimal, or no such field
PrimaryTexts == {DigitStr[i] : i \in PersonIds} \cup {Absent}

\* the ways a POST with 'Confirm' can end
ConfirmOutcomes(post) ==
    {[done EXCEPT !.resp.unposted = post.unposted]
       : done \in MergeLoop(post.groups, DOMAIN post.groups, PrimaryTexts, Store, <<>>)}

\* POST with 'Confirm': the merge step
FindDuplicatesConfirm ==
    \E done \in UNION {ConfirmOutcomes(post) : post \in Posts} :
      /\ persons' = done.store.persons
      /\ refs' = done.store.refs
      /\ resp' = done.resp
      /\ UploadIdle

----------------------------------------------------------------------------
(* Specification of the duplicate workflow *)

PersonRecs == [personal : Personals, family : Families, email : {None}]

\* an order on the names, to list a store's persons in
NameRank(r) == (IF r.personal = "Harry" THEN 0 ELSE 2) + (IF r.family = "Potter" THEN 0 ELSE 1)

\* the names of the merge workflow's initial Data Store: two names, so that
\* MaxPersons persons form up to two groups of duplicates
MergeNames == {r \in PersonRecs : r.personal = "Harry"}

\* the initial Data Store of the merge workflow: MaxPersons persons, their ids
\* given in the order of the names (no view depends on which id a name has)
InitPersons ==
    {f \in [PersonIds -> MergeNames] :
        \A i, j \in PersonIds : i < j => NameRank(f[i]) <= NameRank(f[j])}

InitAnswer == Answer("none", 200, MsgNone, EmptyGroups, <<>>)

InitDupes ==
    /\ persons \in InitPersons
    /\ refs \in SUBSET InitRefRows
    /\ session = NoSession
    /\ txn = NoTxn
    /\ resp = InitAnswer
    /\ forms = NoForms

NextDupes ==
    \/ FindDuplicatesGet
    \/ FindDuplicatesSelect
    \/ FindDuplicatesConfirm

SpecDupes == InitDupes /\ [][NextDupes]_vars

\* the Duplicate Finder alone, over every assignment of names to MaxPersons
\* persons
InitScan ==
    /\ persons \in [PersonIds -> PersonRecs]
    /\ refs = {}
    /\ session = NoSession
    /\ txn = NoTxn
    /\ resp = InitAnswer
    /\ forms = NoForms

NextScan ==
    \/ FindDuplicatesGet
    \/ FindDuplicatesSelect

SpecScan == InitScan /\ [][NextScan]_vars

----------------------------------------------------------------------------
(* Properties of the duplicate workflow *)

ConfirmAnswered == resp.view = "dupes_confirm"
ConfirmAnswered_next == resp'.view = "dupes_confirm"

\* the persons a request's calls of merge_model_objects were to remove
Duplicates(calls) ==
    UNION {Range(calls[i].selected) \ {calls[i].primary} : i \in 1..Len(calls)}

\* the primary a duplicate of the request was merged into
PrimaryOf(calls, d) ==
    LET i == CHOOSE i \in 1..Len(calls) : d \in Range(calls[i].selected)
    IN calls[i].primary

Repointed(calls, r) ==
    IF r.person \in Duplicates(calls)
    THEN [r EXCEPT !.person = PrimaryOf(calls, r.person)]
    ELSE r

\* C3: when a confirmed merge request is answered "Primary not valid" or
\* "Merge failed, nothing was changed", the Data Store is what it was before
\* the request: no group of the request has been merged.
C3_MergeAllOrNothing ==
    [][(ConfirmAnswered_next /\ resp'.msg \in {MsgPrimaryInvalid, MsgMergeFailed})
         => (persons' = persons /\ refs' = refs)]_vars

C5_MergerInputContract ==
    \A i \in 1..Len(resp.calls) :
      LET c == resp.calls[i]
      IN /\ c.primary \in Range(c.selected)
         /\ c.primary \notin Range(c.dups)
         /\ Len(c.dups) >= 1
         /\ Range(c.dups) \subseteq Range(c.selected)

\* a request that merged two groups
C5_Witness == ConfirmAnswered /\ Len(resp.calls) = 2

SameName(a, b) ==
    /\ persons[a].personal = persons[b].personal
    /\ persons[a].family = persons[b].family

\* C6: in every group the full scan or the selection step shows, any two
\* members have the same personal name and the same family name.
C6_GroupInvariant ==
    resp.view \in {"dupes_scan", "dupes_select"}
      => \A k \in DOMAIN resp.groups :
           \A a, b \in Range(resp.groups[k]) : SameName(a, b)

\* a selection step that shows two groups
C6_Witness ==
    /\ resp.view = "dupes_select"
    /\ Cardinality(DOMAIN resp.groups) = 2

Shown == UNION {Range(resp.groups[k]) : k \in DOMAIN resp.groups}

\* C7: the full scan shows a person iff another person has the same personal
\* name and another person has the same family name; persons with the same
\* (personal, family) pair are in one group; each person is shown once.
C7_ScanMembership ==
    resp.view = "dupes_scan"
      => /\ Shown = {p \in DOMAIN persons :
                       /\ \E q \in DOMAIN persons \ {p} :
                            persons[q].personal = persons[p].personal
                       /\ \E q \in DOMAIN persons \ {p} :
                            persons[q].family = persons[p].family}
         /\ \A p, q \in DOMAIN persons :
              (p # q /\ SameName(p, q))
                => \E k \in DOMAIN resp.groups :
                     {p, q} \subseteq Range(resp.groups[k])
         /\ \A k \in DOMAIN resp.groups :
              Len(resp.groups[k]) = Cardinality(Range(resp.groups[k]))

\* two "Harry Potter" in one group, and a "Harry Weasley" shown alone because
\* another Weasley exists
C7_Witness ==
    /\ resp.view = "dupes_scan"
    /\ \E k \in DOMAIN resp.groups : Len(resp.groups[k]) = 2
    /\ \E k \in DOMAIN resp.groups : Len(resp.groups[k]) = 1
    /\ Shown # DOMAIN persons

\* C8: the selection step shows only groups of two or more and answers with
\* the error and a redirect when there is none; the merge step merges only
\* groups of two or more.
C8_OnlyLargeGroups ==
    /\ resp.view = "dupes_select"
         => /\ \A k \in DOMAIN resp.groups : Len(resp.groups[k]) > 1
            /\ \/ resp.status = 200 /\ DOMAIN resp.groups # {}
               \/ /\ resp.status = 302 /\ resp.msg = MsgSelectTwo
                  /\ DOMAIN resp.groups = {}
    /\ ConfirmAnswered
         => \A i \in 1..Len(resp.calls) : Len(resp.calls[i].selected) > 1

\* a selection that leaves no group
C8_Witness ==
    /\ resp.view = "dupes_select"
    /\ resp.status = 302
    /\ resp.msg = MsgSelectTwo

----------------------------------------------------------------------------
(* Bulk upload: staged records *)

MaxBatch == 2

\* the events and roles of the Data Store
Events == {"2014-alpha-event"}
Roles == {"instructor"}

\* the values one record is posted or uploaded with:
\* personal, middle, family, email, event, role
PostedRows ==
    {<<"Harry", "", "Potter", "harry@hogwarts.edu", "2014-alpha-event", "instructor">>,
     <<"", "Q.", "Potter", "harry.at.hogwarts", "", "">>,
     <<"Ron", "", "Weasley", "ron@weasley.org", "no-such-event", "instructor">>}

SeqsUpTo(S, n) == UNION {[1..m -> S] : m \in 0..n}

\* 'errors': None until the record is verified
ErrorsNone == {None}

\* "field or None" converts empty strings to None values
OrNone(text) == IF text = "" THEN None ELSE text

IsEmpty(text) == text = None \/ text = ""

\* upload_person_task_csv: a row of the file as a staged record, absent
\* optional fields normalized to None
ParsedRow(t) ==
    [personal |-> t[1], middle |-> OrNone(t[2]), family |-> t[3],
     email |-> OrNone(t[4]), event |-> OrNone(t[5]), role |-> OrNone(t[6]),
     errors |-> ErrorsNone]

ParsedRows(ts) == [k \in 1..Len(ts) |-> ParsedRow(ts[k])]

\* what upload_person_task_csv (or the form before it) can end with
UploadOutcomes == {"GET", "invalid form", "csv.Error", "UnicodeDecodeError",
                   "empty_fields", "ok"}

\* variant for mutation: the posted middle name and email are kept as posted
EditedRowMutKeepsEmpty(t) ==
    [personal |-> t[1], middle |-> t[2], family |-> t[3],
     email |-> t[4], event |-> t[5], role |-> t[6],
     errors |-> ErrorsNone]

\* the record persons_tasks[k] is replaced by
EditedRow(t) ==
    [personal |-> t[1], middle |-> OrNone(t[2]), family |-> t[3],
     email |-> OrNone(t[4]), event |-> t[5], role |-> t[6],
     errors |-> ErrorsNone]

\* for k, record in enumerate(data_update): persons_tasks[k] = {...}
EditStep(rows, posted) ==
    [k \in 1..Len(rows) |-> IF k <= Len(posted) THEN EditedRow(posted[k]) ELSE rows[k]]

\* persons_tasks[k] = ... raises IndexError when more rows are posted than staged
EditRaises(rows, posted) == Len(posted) > Len(rows)

----------------------------------------------------------------------------
(* Upload Verifier *)

MalformedEmails == {"harry.at.hogwarts"}

ErrorsOf(r) ==
    {f \in {"personal", "family", "email", "event", "role"} :
        CASE f = "personal" -> IsEmpty(r.personal)
          [] f = "family"   -> IsEmpty(r.family)
          [] f = "email"    -> ~IsEmpty(r.email) /\ r.email \in MalformedEmails
          [] f = "event"    -> ~IsEmpty(r.event) /\ r.event \notin Events
          [] f = "role"     -> ~IsEmpty(r.role) /\ r.role \notin Roles}

\* variant for mutation: a record annotated before is marked on the next run
VerifyMutMarksAgain(rows) ==
    [k \in 1..Len(rows) |->
       [rows[k] EXCEPT !.errors = IF rows[k].errors = ErrorsNone
                                  THEN ErrorsOf(rows[k])
                                  ELSE ErrorsOf(rows[k]) \cup {"verified"}]]

\* verify_upload_person_task: annotates every record, in place
verify_upload_person_task(rows) ==
    [k \in 1..Len(rows) |-> [rows[k] EXCEPT !.errors = ErrorsOf(rows[k])]]

\* its result: whether any record has an error
any_errors(rows) == \E k \in 1..Len(rows) : ErrorsOf(rows[k]) # {}

HasErrors(r) == r.errors # ErrorsNone /\ r.errors # {}

----------------------------------------------------------------------------
(* Upload Committer *)

PersonByEmail(ps, email) == {p \in DOMAIN ps : ps[p].email = email}

NewId(ps) == IF DOMAIN ps = {} THEN 1
             ELSE (CHOOSE m \in DOMAIN ps : \A q \in DOMAIN ps : q <= m) + 1

\* the id the Data Store gives the next Person: above every id given so far
\* that is committed or held by the transaction in flight
NextId ==
    NewId([q \in DOMAIN persons
                   \cup (IF txn.active THEN DOMAIN txn.work.persons ELSE {}) |-> q])

NamesTask(row) == ~IsEmpty(row.event) /\ ~IsEmpty(row.role)

\* the named event or role does not exist: ObjectDoesNotExist
LookupFails(row) == NamesTask(row) /\ (row.event \notin Events \/ row.role \notin Roles)

\* the errors of the Data Store that can end any row
Faults == {"IntegrityError", "InternalError"}

\* one record of create_uploaded_persons_tasks: the Person with the record's
\* email is reused, else a Person is created; the Task is created unless it
\* exists
CommitOneRowAs(store, row, newid) ==
    LET found == IF IsEmpty(row.email) THEN {} ELSE PersonByEmail(store.persons, row.email)
        pid == IF found # {} THEN CHOOSE q \in found : TRUE ELSE newid
        ps == IF found # {} THEN store.persons
              ELSE [q \in DOMAIN store.persons \cup {pid} |->
                      IF q = pid
                      THEN [personal |-> row.personal, family |-> row.family,
                            email |-> row.email]
                      ELSE store.persons[q]]
        task == [kind |-> "Task", person |-> pid, item |-> row.event, role |-> row.role]
    IN [persons |-> ps,
        refs |-> IF NamesTask(row) THEN store.refs \cup {task} ELSE store.refs]

CommitOneRow(store, row) == CommitOneRowAs(store, row, NewId(store.persons))

\* variant for mutation: the writes of the failed transaction stay
RollbackMutKeepWrites(store, work) == work

\* the transaction of create_uploaded_persons_tasks ends without commit: none
\* of its writes reaches the Data Store
Rollback(store, work) == store

----------------------------------------------------------------------------
(* person_bulk_add *)

MsgCsvError == "Error processing uploaded .CSV file"
MsgEncoding == "Please provide a file in the given encoding."
MsgMissingFields == "The following required fields were not found in the uploaded file"
MsgNoData == "Could not locate CSV data, please try the upload again."
MsgFixErrors == "Please make sure to fix all errors listed below."
MsgSaveError == "Error saving data to the database. Please make sure to fix all errors listed below."
MsgUploaded == "Successfully uploaded persons and tasks."

UploadMessage(outcome) ==
    CASE outcome = "csv.Error" -> MsgCsvError
      [] outcome = "UnicodeDecodeError" -> MsgEncoding
      [] outcome = "empty_fields" -> MsgMissingFields
      [] OTHER -> MsgNone

\* variant for mutation: staged also when a required column is missing
StageUploadMutAlways(outcome, cur, records) ==
    IF outcome \in {"ok", "empty_fields"} THEN Staged(records) ELSE cur

\* request.session['bulk-add-people'] = persons_tasks, in the else of the else
StageUpload(outcome, cur, records) ==
    IF outcome = "ok" THEN Staged(records) ELSE cur

Idle == ~txn.active

\* the view on an upload that ends as outcome, the file's rows being ts
PersonBulkAddOf(outcome, ts) ==
    /\ session' = StageUpload(outcome, session, ParsedRows(ts))
    /\ resp' = Response("bulk_add", IF outcome = "ok" THEN 302 ELSE 200,
                        UploadMessage(outcome), EmptyGroups, <<>>, <<>>,
                        outcome, NoCommit)
    /\ UNCHANGED <<persons, refs, txn>>

PersonBulkAdd ==
    /\ Idle
    /\ \E outcome \in UploadOutcomes :
       \E ts \in (IF outcome \in {"ok", "empty_fields"}
                  THEN SeqsUpTo(PostedRows, MaxBatch) ELSE {<<>>}) :
         PersonBulkAddOf(outcome, ts)
    /\ UNCHANGED forms

----------------------------------------------------------------------------
(* person_bulk_add_confirmation *)

\* if not persons_tasks
NothingStaged == session.none \/ session.rows = <<>>

RedirectNoData == Response("confirmation", 302, MsgNoData, EmptyGroups, <<>>, <<>>, "", NoCommit)

Render(status, msg, rows, commit) ==
    Response("confirmation", status, msg, EmptyGroups, <<>>, rows, "", commit)

\* GET: the staged rows are verified and shown; the session is not assigned
ConfirmationGetOf ==
    /\ resp' = IF NothingStaged THEN RedirectNoData
               ELSE Render(200, MsgNone, verify_upload_person_task(session.rows), NoCommit)
    /\ UNCHANGED <<persons, refs, session, txn>>

ConfirmationGet ==
    /\ Idle
    /\ ConfirmationGetOf
    /\ UNCHANGED forms

\* variant for mutation: 'confirm' is looked at before 'verify'
BranchMutConfirmFirst(verify, confirm, cancel) ==
    IF confirm /\ ~cancel THEN "confirm"
    ELSE IF verify THEN "verify"
    ELSE "cancel"

\* the branch a POST takes
Branch(verify, confirm, cancel) ==
    IF verify THEN "verify"
    ELSE IF confirm /\ ~cancel THEN "confirm"
    ELSE "cancel"

\* POST that ends within one step: nothing staged, IndexError in the edit
\* step, verify, cancel
ConfirmationPostOf(posted, verify, confirm, cancel) ==
    /\   LET edited == EditStep(session.rows, posted)
             checked == verify_upload_person_task(edited)
             flags == Flags(verify, confirm, cancel)
         IN IF NothingStaged
            THEN /\ resp' = Posted(flags, RedirectNoData)
                 /\ UNCHANGED session
            ELSE IF EditRaises(session.rows, posted)
            THEN /\ resp' = Posted(flags,
                                   Response("confirmation", 500, MsgNone, EmptyGroups,
                                            <<>>, <<>>, "IndexError", NoCommit))
                 /\ UNCHANGED session
            ELSE /\ Branch(verify, confirm, cancel) # "confirm"
                 /\ IF Branch(verify, confirm, cancel) = "verify"
                    THEN /\ session' = Staged(checked)
                         /\ resp' = Posted(flags, Edited(Len(posted),
                                Render(200,
                                       IF any_errors(edited) THEN MsgFixErrors ELSE MsgNone,
                                       checked, NoCommit)))
                    ELSE /\ session' = NoSession
                         /\ resp' = Posted(flags,
                                Response("confirmation", 302, MsgNone, EmptyGroups,
                                         <<>>, <<>>, "", NoCommit))
    /\ UNCHANGED <<persons, refs, txn>>

ConfirmationPost ==
    /\ Idle
    /\ \E posted \in SeqsUpTo(PostedRows, MaxBatch), verify, confirm, cancel \in BOOLEAN :
         ConfirmationPostOf(posted, verify, confirm, cancel)
    /\ UNCHANGED forms

\* POST with confirm and no cancel: the rows are edited and verified, the
\* result of the verification is not looked at, and
\* create_uploaded_persons_tasks starts on them
ConfirmBeginOf(tab, posted, verify, confirm, cancel) ==
    /\ Idle
    /\ ~NothingStaged
    /\ Branch(verify, confirm, cancel) = "confirm"
    /\ ~EditRaises(session.rows, posted)
    /\ Cardinality(DOMAIN persons) + Len(session.rows) <= MaxPersons
    /\ NextId + Len(session.rows) <= MaxPersons + 1
    /\ txn' = [active |-> TRUE,
               batch |-> verify_upload_person_task(EditStep(session.rows, posted)),
               k |-> 1,
               base |-> Store,
               work |-> Store,
               staged |-> session.rows,
               posted |-> posted,
               flags |-> Flags(verify, confirm, cancel),
               tab |-> tab]
    /\ UNCHANGED <<persons, refs, session, resp, forms>>

ConfirmBegin ==
    \E posted \in SeqsUpTo(PostedRows, MaxBatch), verify, confirm, cancel \in BOOLEAN :
      ConfirmBeginOf(NoTab, posted, verify, confirm, cancel)

Committing == txn.active /\ txn.k <= Len(txn.batch)

\* the persons and the rows a transaction has written
Created(t) == DOMAIN t.work.persons \ DOMAIN t.base.persons
NewRefs(t) == t.work.refs \ t.base.refs

Written(t) == Cardinality(Created(t)) + Cardinality(NewRefs(t))

\* variant for mutation: the Data Store does not check the email
UniqueViolationMutNever(t) == FALSE

\* the Data Store's constraints when the transaction's writes meet what was
\* committed since it began: a Person's email is unique, and a row references
\* a Person that exists
UniqueViolation(t) ==
    \E p \in Created(t) :
      /\ ~IsEmpty(t.work.persons[p].email)
      /\ PersonByEmail(persons, t.work.persons[p].email) # {}

ForeignKeyViolation(t) ==
    \E r \in NewRefs(t) : r.person \notin Created(t) \cup DOMAIN persons

ConstraintFails == txn.active /\ (UniqueViolation(txn) \/ ForeignKeyViolation(txn))

\* record txn.k is written inside the transaction
CommitRow ==
    /\ Committing
    /\ ~LookupFails(txn.batch[txn.k])
    /\ txn' = [txn EXCEPT !.k = txn.k + 1,
                          !.work = CommitOneRowAs(txn.work, txn.batch[txn.k], NextId)]
    /\ UNCHANGED <<persons, refs, session, resp, forms>>

\* variant for mutation: the staging area cleared on failure
SessionAfterFailureMutClear(checked) == NoSession

\* the session after the except clause: the value assigned before the
\* branches, the edited rows, with the annotations of the last verification
SessionAfterFailure(checked) == Staged(checked)

\* record txn.k fails: the transaction is rolled back, the except clause
\* verifies again and renders the rows with status 400; the session keeps the
\* edited rows
CommitFail ==
    /\ txn.active
    /\ \E error \in (IF ~Committing
                     THEN (IF ConstraintFails THEN {"IntegrityError"} ELSE {})
                     ELSE IF LookupFails(txn.batch[txn.k]) THEN {"ObjectDoesNotExist"}
                     ELSE Faults) :
         LET undone == Rollback(Store, txn.work)
             checked == verify_upload_person_task(txn.batch)
         IN /\ persons' = undone.persons
            /\ refs' = undone.refs
            /\ session' = SessionAfterFailure(checked)
            /\ resp' = Posted(txn.flags, Edited(Len(txn.posted),
                   Render(400, MsgSaveError, checked,
                          [invoked |-> TRUE, failedAt |-> txn.k, error |-> error,
                           written |-> Written(txn),
                           persons_created |-> 0, tasks_created |-> 0])))
            /\ forms' = FormsAfter(forms, txn.tab, Len(checked))
    /\ txn' = NoTxn

\* variant for mutation: the staged rows stay after the commit
SessionAfterSuccessMutKeep(cur) == cur

\* request.session['bulk-add-people'] = None, in the else of the try
SessionAfterSuccess(cur) == NoSession

\* every record is written: the transaction commits, the staging area is
\* cleared
CommitDone ==
    /\ txn.active
    /\ txn.k > Len(txn.batch)
    /\ ~ConstraintFails
    /\ persons' = [q \in DOMAIN persons \cup Created(txn) |->
                     IF q \in Created(txn) THEN txn.work.persons[q] ELSE persons[q]]
    /\ refs' = refs \cup NewRefs(txn)
    /\ session' = SessionAfterSuccess(session)
    /\ resp' = Posted(txn.flags,
           Response("confirmation", 302, MsgUploaded, EmptyGroups, <<>>, <<>>, "",
                    [invoked |-> TRUE, failedAt |-> 0, error |-> "",
                     written |-> Written(txn),
                     persons_created |-> Cardinality(Created(txn)),
                     tasks_created |-> Cardinality(NewRefs(txn))]))
    /\ forms' = FormsAfter(forms, txn.tab, 0)
    /\ txn' = NoTxn

----------------------------------------------------------------------------
(* Specification of the bulk-upload workflow *)

Hermione == [personal |-> "Hermione", family |-> "Granger", email |-> "hermione@granger.co.uk"]
Natasha == [personal |-> "Natasha", family |-> "Romanova", email |-> None]

\* the initial Data Store of the upload workflow: persons of the test
\* fixture, with room for the persons of one full batch
InitUpload ==
    /\ persons = [p \in 1..(MaxPersons - MaxBatch) |-> IF p = 1 THEN Hermione ELSE Natasha]
    /\ refs = {}
    /\ session = NoSession
    /\ txn = NoTxn
    /\ resp = InitAnswer
    /\ forms = NoForms

NextUpload ==
    \/ PersonBulkAdd
    \/ ConfirmationGet
    \/ ConfirmationPost
    \/ ConfirmBegin
    \/ CommitRow
    \/ CommitFail
    \/ CommitDone

SpecUpload == InitUpload /\ [][NextUpload]_vars

----------------------------------------------------------------------------
(* Properties of the bulk-upload workflow *)

CommitFailed_next == txn.active /\ ~txn'.active /\ resp'.commit.failedAt > 0

\* C1: create_uploaded_persons_tasks runs only on a batch in which the
\* verification before it left no record with errors.
C1_NoErrorsReachCommitter ==
    txn.active => \A k \in 1..Len(txn.batch) : ~HasErrors(txn.batch[k])

\* C2: while create_uploaded_persons_tasks is writing the records of a batch
\* the Data Store that other requests read does not change, and when a record
\* fails the Data Store is what it was before the request: no Person and no
\* Task of the batch exists; the writes reach the Data Store together, after
\* the last record.
C2_CommitAtomic ==
    [][/\ (txn.active /\ txn'.active) => (persons' = persons /\ refs' = refs)
       /\ CommitFailed_next
            => /\ persons' = persons /\ refs' = refs
               /\ resp'.commit.error \in Faults \cup {"ObjectDoesNotExist"}
       /\ (txn.active /\ ~txn'.active /\ resp'.commit.failedAt = 0)
            => /\ txn.k > Len(txn.batch)
               /\ persons' = txn.work.persons /\ refs' = txn.work.refs]_vars

\* record 2 of a batch failed after record 1 had been written
C2_Witness ==
    /\ resp.view = "confirmation" /\ resp.status = 400
    /\ resp.commit.failedAt = 2
    /\ resp.commit.written > 0

UploadFailures == {"csv.Error", "UnicodeDecodeError", "empty_fields"}

\* C9: an upload that cannot be parsed, cannot be decoded or lacks a required
\* column reports its error message and leaves the staged batch and the Data
\* Store as they were.
C9_FailedUploadChangesNothing ==
    [][(~txn.active /\ ~txn'.active /\ resp'.view = "bulk_add"
          /\ resp'.note \in UploadFailures)
         => /\ resp'.msg \in {MsgCsvError, MsgEncoding, MsgMissingFields}
            /\ resp'.status = 200
            /\ session' = session
            /\ persons' = persons /\ refs' = refs]_vars

\* an upload lacking a required column, made while a batch is staged
C9_Witness ==
    /\ resp.view = "bulk_add" /\ resp.note = "empty_fields"
    /\ ~session.none /\ session.rows # <<>>

PostedEmpty(text) == IF text = "" THEN None ELSE text

\* C10: when a record fails in the commit, the response is the verification
\* page with status 400 and the error message, and the session holds the
\* staged batch with the values posted in the request, verified again, as
\* shown.
C10_ConflictReturnsToVerification ==
    [][CommitFailed_next
         => /\ resp'.view = "confirmation" /\ resp'.status = 400
            /\ resp'.msg = MsgSaveError
            /\ ~session'.none
            /\ Len(session'.rows) = Len(txn.staged)
            /\ resp'.shown = session'.rows
            /\ \A k \in 1..Len(session'.rows) :
                 LET r == session'.rows[k]
                 IN /\ r.errors = ErrorsOf(r)
                    /\ k <= Len(txn.posted)
                         => /\ r.personal = txn.posted[k][1]
                            /\ r.middle = PostedEmpty(txn.posted[k][2])
                            /\ r.family = txn.posted[k][3]
                            /\ r.email = PostedEmpty(txn.posted[k][4])
                            /\ r.event = txn.posted[k][5]
                            /\ r.role = txn.posted[k][6]
                    /\ k > Len(txn.posted)
                         => [r EXCEPT !.errors = ErrorsNone]
                              = [txn.staged[k] EXCEPT !.errors = ErrorsNone]]_vars

\* a commit that failed with an IntegrityError on rows edited in the request
\* (an edited row holds the posted empty event, an uploaded one None)
C10_Witness ==
    /\ resp.view = "confirmation" /\ resp.status = 400
    /\ resp.commit.error = "IntegrityError"
    /\ session = Staged(resp.shown)
    /\ \E k \in 1..Len(session.rows) : session.rows[k].event = ""

Verified(r) == r.status = 200 /\ r.shown # <<>> /\ ~r.commit.invoked
Committed(r) == r.commit.invoked
Cancelled(r) == r.status = 302 /\ r.msg = MsgNone /\ r.shown = <<>> /\ ~r.commit.invoked

ConfirmOnly(flags) == flags.post /\ flags.confirm /\ ~flags.verify /\ ~flags.cancel

\* a POST of the confirmation form that found rows staged and edited them
ActedOn(r) ==
    /\ r.view = "confirmation" /\ r.flags.post
    /\ r.msg # MsgNoData /\ r.note # "IndexError"

\* C12: a POST of the confirmation form takes exactly one of the actions
\* verify, commit, cancel, whatever flags are set; create_uploaded_persons_tasks
\* is invoked only when confirm is set and verify and cancel are not; a POST
\* with verify, with cancel or with no flag leaves the Data Store unchanged.
C12_FlagsExclusive ==
    [][/\ ActedOn(resp')
            => /\ Verified(resp') <=> resp'.flags.verify
               /\ Committed(resp') <=> ConfirmOnly(resp'.flags)
               /\ Cancelled(resp') <=> (~resp'.flags.verify /\ ~ConfirmOnly(resp'.flags))
       /\ txn'.active => ConfirmOnly(txn'.flags)
       /\ (resp'.view = "confirmation" /\ resp'.flags.post /\ ~ConfirmOnly(resp'.flags))
            => /\ ~resp'.commit.invoked
               /\ persons' = persons /\ refs' = refs]_vars

\* a POST with verify and confirm both set, answered by the verification alone
C12_Witness ==
    /\ ActedOn(resp)
    /\ resp.flags.verify /\ resp.flags.confirm /\ ~resp.flags.cancel
    /\ Verified(resp)

----------------------------------------------------------------------------
(* Two tabs of one session on the bulk-upload workflow *)

\* the values the tabs upload: a record without errors and one with
TabRows == {t \in PostedRows : t[5] \in Events \cup {""}}

\* the values a tab submits for a row of its form: the record without errors
FormRows == {t \in PostedRows : t[5] \in Events}

\* the tab is not waiting for the answer to its confirm request
Free(t) == ~(txn.active /\ txn.tab = t)

\* a tab uploads a file
TabUpload(t) ==
    /\ Free(t)
    /\ \E outcome \in UploadOutcomes :
       \E ts \in (IF outcome = "ok" THEN SeqsUpTo(TabRows, MaxBatch) ELSE {<<>>}) :
         PersonBulkAddOf(outcome, ts)
    /\ forms' = FormsAfter(forms, t, 0)

\* a tab opens the confirmation page: it shows one form row for each staged row
TabGet(t) ==
    /\ Free(t)
    /\ ConfirmationGetOf
    /\ forms' = FormsAfter(forms, t, Len(resp'.shown))

\* a tab submits the form it shows, one entry for each of the form's rows;
\* the request ends within one step
TabPost(t) ==
    /\ Free(t)
    /\ forms[t] > 0
    /\ \E posted \in [1..forms[t] -> FormRows], verify, confirm, cancel \in BOOLEAN :
         ConfirmationPostOf(posted, verify, confirm, cancel)
    /\ forms' = FormsAfter(forms, t, IF resp'.status = 500 THEN forms[t]
                                     ELSE Len(resp'.shown))

\* a tab submits the form it shows with confirm: the commit starts
TabConfirmBegin(t) ==
    /\ forms[t] > 0
    /\ \E posted \in [1..forms[t] -> FormRows], verify, confirm, cancel \in BOOLEAN :
         ConfirmBeginOf(t, posted, verify, confirm, cancel)

NextTabs ==
    \/ \E t \in Tabs : TabUpload(t)
    \/ \E t \in Tabs : TabGet(t)
    \/ \E t \in Tabs : TabPost(t)
    \/ \E t \in Tabs : TabConfirmBegin(t)
    \/ CommitRow
    \/ CommitFail
    \/ CommitDone

SpecTabs == InitUpload /\ [][NextTabs]_vars

\* C13: whatever the two tabs do in whatever order, no request of a tab ends
\* with a server error, and the rows a request verifies or commits are all
\* rows of the request that wrote the staged batch last (the request itself:
\* every row holds the values of its form), never rows of two uploads side by
\* side.
C13_TabsRaceHarmlessly ==
    /\ resp.view = "confirmation" => resp.status # 500
    /\ (ActedOn(resp) /\ resp.shown # <<>>) => resp.edited = Len(resp.shown)
    /\ txn.active => Len(txn.posted) = Len(txn.batch)

----------------------------------------------------------------------------
(* _get_pagination_items *)

ITEMS_PER_PAGE == 25

\* the decimal text of a small integer
IntText(n) ==
    IF n = 0 THEN "0"
    ELSE IF n > 0 THEN DigitStr[n]
    ELSE "-" \o DigitStr[0 - n]

IntTexts == {IntText(n) : n \in (0 - 9)..9}

\* int(text), for a text int() accepts
IntOf(text) == CHOOSE n \in (0 - 9)..9 : IntText(n) = text

\* request.GET: 'items_per_page' and 'page', each missing, a number or other
\* text
ItemsTexts == {Absent, "all", "abc"} \cup {IntText(n) : n \in (0 - 1)..2}
PageTexts == {Absent, "abc"} \cup {IntText(n) : n \in (0 - 1)..(MaxPersons + 1)}

\* items = request.GET.get('items_per_page', ITEMS_PER_PAGE), then int(items)
\* unless it is 'all', ITEMS_PER_PAGE on a ValueError
ItemsOf(text) ==
    IF text = Absent THEN ITEMS_PER_PAGE
    ELSE IF text \in IntTexts THEN IntOf(text)
    ELSE ITEMS_PER_PAGE

\* Paginator.num_pages: ceil(max(1, count) / per_page), per_page not 0
num_pages(count, per_page) ==
    LET hits == IF count > 1 THEN count ELSE 1
    IN IF per_page > 0 THEN (hits + per_page - 1) \div per_page
       ELSE 0 - (hits \div (0 - per_page))

Raised(error) == [raised |-> error, all |-> FALSE, number |-> 0, num_pages |-> 0,
                  bottom |-> 0, top |-> 0]

\* Paginator.page(number) for an integer number: validate_number, then the
\* slice of the query set
paginator_page(number, count, per_page) ==
    IF number < 1 THEN Raised("EmptyPage")
    ELSE IF per_page = 0 THEN Raised("ZeroDivisionError")
    ELSE IF number > num_pages(count, per_page) /\ number # 1 THEN Raised("EmptyPage")
    ELSE LET bottom == (number - 1) * per_page
             top == IF bottom + per_page >= count THEN count ELSE bottom + per_page
         IN IF top < 0
            \* a query set does not take a negative index
            THEN Raised("AssertionError")
            ELSE [raised |-> "", all |-> FALSE, number |-> number,
                  num_pages |-> num_pages(count, per_page),
                  bottom |-> bottom, top |-> top]

\* the function, on the two texts of the query and the length of all_objects
get_pagination_items(items_text, page_text, count) ==
    IF items_text = "all"
    THEN [raised |-> "", all |-> TRUE, number |-> 0, num_pages |-> 0,
          bottom |-> 0, top |-> count]
    ELSE LET items == ItemsOf(items_text)
             first == IF page_text \in IntTexts
                      THEN paginator_page(IntOf(page_text), count, items)
                      ELSE Raised("PageNotAnInteger")
         IN IF first.raised = "PageNotAnInteger"
            THEN paginator_page(1, count, items)
            ELSE IF first.raised = "EmptyPage"
            THEN IF items = 0 THEN Raised("ZeroDivisionError")
                 ELSE paginator_page(num_pages(count, items), count, items)
            ELSE first

Pending == [raised |-> "pending", all |-> FALSE, number |-> 0, num_pages |-> 0,
            bottom |-> 0, top |-> 0]

\* a request for a list view, its query, and what the function returned
Listing(items_text, page_text, result) ==
    [view |-> "list", items_per_page |-> items_text, page |-> page_text,
     result |-> result]

Listings == {Listing(i, p, Pending) : i \in ItemsTexts, p \in PageTexts}

InitPaging ==
    /\ \E n \in 0..MaxPersons : persons = [p \in 1..n |-> Natasha]
    /\ refs = {}
    /\ session = NoSession
    /\ txn = NoTxn
    /\ resp \in Listings
    /\ forms = NoForms

\* the view calls the function on all_objects
GetPaginationItems ==
    /\ resp.result = Pending
    /\ resp' = [resp EXCEPT !.result =
                  get_pagination_items(resp.items_per_page, resp.page,
                                       Cardinality(DOMAIN persons))]
    /\ UNCHANGED <<persons, refs, session, txn, forms>>

\* the next request
ListRequest ==
    /\ resp.result # Pending
    /\ resp' \in Listings
    /\ UNCHANGED <<persons, refs, session, txn, forms>>

NextPaging ==
    \/ GetPaginationItems
    \/ ListRequest

SpecPaging == InitPaging /\ [][NextPaging]_vars

\* C14: for every items_per_page and page of the query the function returns;
\* when it paginates, the page returned is one of 1..num_pages, the first for
\* a page that is missing or no integer, the last for an integer page out of
\* range.
C14_PaginationTotal ==
    (resp.view = "list" /\ resp.result # Pending)
      => /\ resp.result.raised = ""
         /\ ~resp.result.all
              => /\ resp.result.number \in 1..resp.result.num_pages
                 /\ resp.page \notin IntTexts => resp.result.number = 1
                 /\ (resp.page \in IntTexts
                       /\ IntOf(resp.page) \notin 1..resp.result.num_pages)
                      => resp.result.number = resp.result.num_pages

----------------------------------------------------------------------------
(* Commits of several sessions and merges on one Data Store *)

\* the records committed: one with the email of a Person of the fixture, one
\* with an email no Person has
StoreRows ==
    {<<"Harry", "", "Potter", "harry@hogwarts.edu", "2014-alpha-event", "instructor">>,
     <<"Ron", "", "Weasley", "ron@weasley.org", "", "">>}

Harry == [personal |-> "Harry", family |-> "Potter", email |-> "harry@hogwarts.edu"]

\* the fixture's Harry Potter, and a second entry of him without email
InitStore ==
    /\ persons = [p \in 1..(MaxPersons - MaxBatch) |->
                    IF p = 1 THEN Harry ELSE [Harry EXCEPT !.email = None]]
    /\ refs = {}
    /\ session = NoSession
    /\ txn = NoTxn
    /\ resp = InitAnswer
    /\ forms = NoForms

\* the session uploads a file of these records
StoreUpload ==
    /\ Idle
    /\ \E ts \in SeqsUpTo(StoreRows, MaxBatch) : PersonBulkAddOf("ok", ts)
    /\ UNCHANGED forms

\* and confirms it as uploaded
StoreConfirmBegin == ConfirmBeginOf(NoTab, <<>>, FALSE, TRUE, FALSE)

\* the commit of another session's one-record batch, at the instant its
\* transaction commits
OtherCommit ==
    \E t \in StoreRows :
      LET after == CommitOneRowAs(Store, ParsedRow(t), NextId)
      IN /\ DOMAIN after.persons \subseteq PersonIds
         /\ persons' = after.persons
         /\ refs' = after.refs
         /\ UNCHANGED <<session, txn, resp, forms>>

NextStore ==
    \/ StoreUpload
    \/ StoreConfirmBegin
    \/ CommitRow
    \/ CommitFail
    \/ CommitDone
    \/ OtherCommit
    \/ FindDuplicatesConfirm

SpecStore == InitStore /\ [][NextStore]_vars

EmailUnique(ps) ==
    \A p, q \in DOMAIN ps :
      (p # q /\ ~IsEmpty(ps[p].email)) => ps[p].email # ps[q].email

\* C15: before and after every step of commits (the session's, in steps, and
\* other sessions' in between) and merges no two Persons have the same
\* non-empty email; a commit that succeeds creates no Person for a record
\* whose email a Person had when the commit began.
C15_EmailUnique ==
    [][/\ EmailUnique(persons) /\ EmailUnique(persons')
       /\ (txn.active /\ ~txn'.active /\ resp'.commit.failedAt = 0)
            => \A k \in 1..Len(txn.batch) :
                 LET email == txn.batch[k].email
                 IN (~IsEmpty(email) /\ PersonByEmail(txn.base.persons, email) # {})
                      => \A p \in DOMAIN persons' \ DOMAIN persons :
                           persons'[p].email # email]_vars

\* a commit that had created a Person ends with an IntegrityError because
\* another session committed a Person with the same email meanwhile
C15_Witness ==
    /\ resp.view = "confirmation" /\ resp.status = 400
    /\ resp.commit.failedAt = Len(resp.shown) + 1
    /\ resp.commit.written > 0
    /\ \E k \in 1..Len(resp.shown) :
         PersonByEmail(persons, resp.shown[k].email) \ (1..(MaxPersons - MaxBatch)) # {}

\* a response that reports a commit done, or a cancel
Cleared(r) ==
    /\ r.view = "confirmation" /\ r.flags.post /\ r.status = 302
    /\ r.msg \in {MsgUploaded, MsgNone}

\* a response to a request for the confirmation page that met no staged rows
Redirected(r) ==
    /\ r.view = "confirmation" /\ r.status = 302 /\ r.msg = MsgNoData
    /\ r.shown = <<>> /\ ~r.commit.invoked

\* from a state whose staging area is cleared, a step stages rows only if it
\* is an upload that succeeds, and a request for the confirmation page is answered
\* with the redirect, starts no commit and leaves the session alone
StaysCleared ==
    /\ ~NothingStaged' => (resp'.view = "bulk_add" /\ resp'.note = "ok")
    /\ (resp'.view = "confirmation" /\ resp' # resp)
         => (Redirected(resp') /\ session' = session /\ txn' = txn)

HoldsPosted(r, t) ==
    /\ r.personal = t[1] /\ r.middle = PostedEmpty(t[2]) /\ r.family = t[3]
    /\ r.email = PostedEmpty(t[4]) /\ r.event = t[5] /\ r.role = t[6]

\* C17: the edit step of a POST does not fail and leaves as many records as
\* were staged, each holding the values posted for its index (seen on the
\* batch a confirm request goes on to commit: its errors are those of the
\* verification that follows the reset); no record keeps the values staged
\* before, whatever the number of entries posted.
C17_EditStepReplacesAll ==
    /\ resp.note # "IndexError"
    /\ txn.active
         => /\ Len(txn.batch) = Len(txn.staged)
            /\ \A k \in 1..Len(txn.batch) :
                 /\ k <= Len(txn.posted)
                 /\ HoldsPosted(txn.batch[k], txn.posted[k])
                 /\ txn.batch[k].errors = ErrorsOf(txn.batch[k])

\* C18: a confirmed merge deletes only persons whose id was posted (no member
\* of a group of the request that was not posted), that are in a group of two
\* or more of the request and are not the primary named for that group; the
\* primary of every group merged and every person not in a group of the
\* request exist after the request.
C18_MergeDeletesOnlySelected ==
    [][ConfirmAnswered_next
         => /\ \A d \in DOMAIN persons \ DOMAIN persons' :
                 /\ d \notin resp'.unposted
                 /\ \E i \in 1..Len(resp'.calls) :
                      LET c == resp'.calls[i]
                      IN /\ d \in Range(c.selected)
                         /\ Len(c.selected) >= 2
                         /\ d # c.primary
                         /\ get_first_last(persons, d) = get_first_last(persons, c.primary)
            /\ \A i \in 1..Len(resp'.calls) : resp'.calls[i].primary \in DOMAIN persons'
            /\ \A p \in DOMAIN persons :
                 (\A i \in 1..Len(resp'.calls) : p \notin Range(resp'.calls[i].selected))
                   => p \in DOMAIN persons']_vars

\* a merge done while a person of the same name, not posted, stays
C18_Witness ==
    /\ ConfirmAnswered /\ resp.msg = MsgMergeSuccess
    /\ Len(resp.calls) >= 1
    /\ \E p \in DOMAIN persons \ {resp.calls[1].primary} :
         get_first_last(persons, p) = get_first_last(persons, resp.calls[1].primary)

\* C19: the full scan and the selection step leave every Person and every
\* referencing row as they were, whatever ids are posted; only a POST with
\* 'Confirm' changes the Data Store.
C19_OnlyConfirmWrites ==
    [][/\ resp'.view \in {"dupes_scan", "dupes_select"}
            => (persons' = persons /\ refs' = refs)
       /\ (persons' # persons \/ refs' # refs) => ConfirmAnswered_next]_vars

\* a selection step that shows a group of three whose members have rows
C19_Witness ==
    /\ resp.view = "dupes_select" /\ resp.status = 200
    /\ \E k \in DOMAIN resp.groups :
         /\ Len(resp.groups[k]) = 3
         /\ \A p \in Range(resp.groups[k]) : \E r \in refs : r.person = p

\* the rows staged after the edit step of a POST (a verify request, or a
\* confirm request that failed)
AfterEditStep == resp.flags.post /\ resp.edited > 0 /\ ~session.none /\ ~txn.active

\* C20: after the edit step of a confirmation POST no staged record holds an
\* empty string in middle, email, event or role; a field posted empty is None.
C20_EmptyOptionalIsNone ==
    AfterEditStep
      => \A k \in 1..Len(session.rows) :
           LET r == session.rows[k]
           IN r.middle # "" /\ r.email # "" /\ r.event # "" /\ r.role # ""

\* C20, as the code has it: after the edit step no staged record holds an
\* empty string in middle or email (a value posted empty is None); the batch a
\* confirm request works on holds the event and role as posted, the empty
\* string included.
C20_EmptyMiddleEmailIsNone ==
    /\ AfterEditStep
         => \A k \in 1..Len(session.rows) :
              session.rows[k].middle # "" /\ session.rows[k].email # ""
    /\ txn.active
         => \A k \in 1..Len(txn.posted) :
              /\ txn.posted[k][2] = "" => txn.batch[k].middle = None
              /\ txn.posted[k][4] = "" => txn.batch[k].email = None
              /\ txn.batch[k].event = txn.posted[k][5]
              /\ txn.batch[k].role = txn.posted[k][6]

\* a verify request that edited two rows: one posted with an empty middle
\* name, one with an empty event and role
C20_Witness ==
    /\ AfterEditStep /\ resp.status = 200 /\ resp.edited = 2
    /\ \E k \in 1..Len(session.rows) : session.rows[k].middle = None
    /\ \E k \in 1..Len(session.rows) :
         session.rows[k].event = "" /\ session.rows[k].role = ""

====
